---- MODULE Spec2Model ----
(***************************************************************************)
(* A model of async-queue-manager: the TaskGraph (lib/task-graph.js) and   *)
(* the QueueManager that drives it (lib/queue-manager.js).                 *)
(*                                                                         *)
(* Task ids are the numbers 1..NTasks.  A TaskFn is an asynchronous        *)
(* function: it settles (resolves or rejects) in a later turn of the event *)
(* loop than the one that launched it.  Every step of the model is one     *)
(* synchronous run-to-completion segment of JavaScript: a call of the      *)
(* public API up to its first await, the continuation of a suspended       *)
(* _processQueue loop, the continuation of a settled TaskFn, or the        *)
(* continuation of a stop() that waited for the running promises.          *)
(***************************************************************************)
EXTENDS Integers, Sequences, FiniteSets, TLC

VARIABLES
    taskGraph,    \* the TaskGraph: tasks, dependencies, dependents, completed
    qm,           \* the QueueManager's fields
    loops,        \* number of _processQueue loops suspended at their await
    inflight,     \* task id -> number of executions of its TaskFn in flight
    stopWaits,    \* a stop(true) is suspended at its await
    awaited,      \* the task ids whose promise that stop() still awaits
    outcome,      \* what each TaskFn does: "ok", "fail" or "flaky"
    emitted,      \* the events emitted by the last step, in order
    seen,         \* summary of the events of this run before the last step
    raised,       \* the error the last call threw, "none" if it returned
    call,         \* the last call made on the TaskGraph and what it returned
    ac,           \* the AdaptiveConcurrency controller
    pauseFence,   \* pause() was called while processing, no start()/resume() since
    stopFence     \* stop() was called, no start()/resume() since

vars == <<taskGraph, qm, loops, inflight, stopWaits, awaited, outcome, emitted, seen,
          raised, call, ac, pauseFence, stopFence>>

schedVars == <<qm, loops, inflight, stopWaits, awaited, outcome, emitted, seen,
               pauseFence, stopFence>>

\* Everything but the AdaptiveConcurrency controller.
otherVars == <<taskGraph, qm, loops, inflight, stopWaits, awaited, outcome, emitted,
               seen, raised, call, pauseFence, stopFence>>

(***************************************************************************)
(* Bounds                                                                  *)
(***************************************************************************)
NTasks == 3         \* task ids
MaxDepArgs == 2     \* longest dependsOn array passed to addDependency
MaxConc == 2        \* largest concurrency bound tried
MaxExec == 2        \* executions of one TaskFn in flight at once
MaxLoops == 2       \* _processQueue loops suspended at once
MaxCount == 3       \* stats counters saturate here (MaxCount stands for >= MaxCount)
SeenCap == 2        \* per-run event counts saturate here
MaxBad == 1         \* ids whose TaskFn can fail
MaxAcConc == 3      \* largest maxConcurrency of the adaptive controller
MaxStep == 2        \* largest adjustmentStep
MaxSamples == 2     \* _checkResources calls suspended at their await at once

Ids == 1..NTasks

Min(a, b) == IF a < b THEN a ELSE b
Max(a, b) == IF a > b THEN a ELSE b
Last(s) == s[Len(s)]
Front(s) == SubSeq(s, 1, Len(s) - 1)
Range(s) == {s[i] : i \in 1..Len(s)}
Includes(s, x) == \E i \in 1..Len(s) : s[i] = x

(***************************************************************************)
(* TaskGraph                                                               *)
(***************************************************************************)
\* constructor: empty maps and an empty completed set.  tasks is the Map's
\* key order; dependencies and dependents hold <<>> for unregistered ids.
NewTaskGraph ==
    [tasks |-> <<>>,
     dependencies |-> [i \in Ids |-> <<>>],
     dependents |-> [i \in Ids |-> <<>>],
     completed |-> {}]

Has(g, id) == Includes(g.tasks, id)

\* A call's outcome: the graph after it and the error it threw.
Ret(g) == [g |-> g, err |-> "none"]
Throw(g, e) == [g |-> g, err |-> e]

addTask(g, taskId) ==
    IF Has(g, taskId) THEN Throw(g, "exists")
    ELSE Ret([g EXCEPT !.tasks = Append(@, taskId),
                       !.dependencies[taskId] = <<>>,
                       !.dependents[taskId] = <<>>])

\* The while loop of wouldCreateCycle: a depth-first walk over the
\* dependencies lists from the ids on the stack, looking for `from`.
RECURSIVE CycleWalk(_, _, _, _)
CycleWalk(deps, from, stack, visited) ==
    IF stack = <<>> THEN FALSE
    ELSE LET current == Last(stack)
             rest == Front(stack)
         IN  IF current = from THEN TRUE
             ELSE IF current \notin visited
                  THEN CycleWalk(deps, from, rest \o deps[current],
                                 visited \cup {current})
                  ELSE CycleWalk(deps, from, rest, visited)

\* A variant of wouldCreateCycle that finds no cycle.
wouldCreateCycle_Never(g, from, to) == FALSE

wouldCreateCycle(g, from, to) == CycleWalk(g.dependencies, from, <<to>>, {})

\* A variant of AddDeps that records the edge in dependencies only.
RECURSIVE AddDeps_OneWay(_, _, _)
AddDeps_OneWay(g, taskId, dependsOn) ==
    IF dependsOn = <<>> THEN Ret(g)
    ELSE LET depId == Head(dependsOn) IN
         IF ~Has(g, depId) THEN Throw(g, "unknown")
         ELSE IF wouldCreateCycle(g, depId, taskId) THEN Throw(g, "cycle")
         ELSE IF ~Includes(g.dependencies[taskId], depId)
              THEN AddDeps_OneWay([g EXCEPT !.dependencies[taskId] = Append(@, depId)],
                                  taskId, Tail(dependsOn))
              ELSE AddDeps_OneWay(g, taskId, Tail(dependsOn))

\* The for loop of addDependency over the dependsOn array.
RECURSIVE AddDeps(_, _, _)
AddDeps(g, taskId, dependsOn) ==
    IF dependsOn = <<>> THEN Ret(g)
    ELSE LET depId == Head(dependsOn) IN
         IF ~Has(g, depId) THEN Throw(g, "unknown")
         ELSE IF wouldCreateCycle(g, depId, taskId) THEN Throw(g, "cycle")
         ELSE IF ~Includes(g.dependencies[taskId], depId)
              THEN AddDeps([g EXCEPT !.dependencies[taskId] = Append(@, depId),
                                     !.dependents[depId] = Append(@, taskId)],
                           taskId, Tail(dependsOn))
              ELSE AddDeps(g, taskId, Tail(dependsOn))

\* dependsOn is an array; a single id is the array of that id.
addDependency(g, taskId, dependsOn) ==
    IF ~Has(g, taskId) THEN Throw(g, "unknown")
    ELSE AddDeps(g, taskId, dependsOn)

\* A variant of AllDepsCompleted that does not look at the dependencies.
AllDepsCompleted_Skip(g, taskId) == TRUE

AllDepsCompleted(g, taskId) ==
    \A i \in 1..Len(g.dependencies[taskId]) :
        g.dependencies[taskId][i] \in g.completed

\* A variant of ReadyFrom that does not skip the completed ids.
RECURSIVE ReadyFrom_KeepCompleted(_, _)
ReadyFrom_KeepCompleted(g, ids) ==
    IF ids = <<>> THEN <<>>
    ELSE LET taskId == Head(ids) IN
         IF AllDepsCompleted(g, taskId)
         THEN <<taskId>> \o ReadyFrom_KeepCompleted(g, Tail(ids))
         ELSE ReadyFrom_KeepCompleted(g, Tail(ids))

\* The ready ids in the order of the tasks Map.
RECURSIVE ReadyFrom(_, _)
ReadyFrom(g, ids) ==
    IF ids = <<>> THEN <<>>
    ELSE LET taskId == Head(ids) IN
         IF taskId \in g.completed THEN ReadyFrom(g, Tail(ids))
         ELSE IF AllDepsCompleted(g, taskId)
              THEN <<taskId>> \o ReadyFrom(g, Tail(ids))
              ELSE ReadyFrom(g, Tail(ids))

getReadyTasks(g) == ReadyFrom(g, g.tasks)

\* A variant of markCompleted without the test of the id.
markCompleted_Unchecked(g, taskId) ==
    Ret([g EXCEPT !.completed = @ \cup {taskId}])

markCompleted(g, taskId) ==
    IF ~Has(g, taskId) THEN Throw(g, "unknown")
    ELSE Ret([g EXCEPT !.completed = @ \cup {taskId}])

\* A variant of graphReset that keeps the completed set.
graphReset_Keep(g) == g

graphReset(g) == [g EXCEPT !.completed = {}]

isComplete(g) == Cardinality(g.completed) = Len(g.tasks)

Reverse(s) == [i \in 1..Len(s) |-> s[Len(s) + 1 - i]]

\* getTopologicalOrder.  st holds the closure's visited and temp sets and
\* the order array, and err once visit threw.  VisitEach is a for loop
\* calling visit on each id of a list.
RECURSIVE visit(_, _, _), VisitEach(_, _, _)
visit(g, st, taskId) ==
    IF st.err # "none" THEN st
    ELSE IF taskId \in st.temp THEN [st EXCEPT !.err = "cycle"]
    ELSE IF taskId \notin st.visited
         THEN LET s1 == VisitEach(g, [st EXCEPT !.temp = @ \cup {taskId}],
                                  g.dependencies[taskId])
              IN  IF s1.err # "none" THEN s1
                  ELSE [s1 EXCEPT !.temp = @ \ {taskId},
                                  !.visited = @ \cup {taskId},
                                  !.order = Append(@, taskId)]
         ELSE st

VisitEach(g, st, ids) ==
    IF ids = <<>> THEN st
    ELSE VisitEach(g, visit(g, st, Head(ids)), Tail(ids))

\* The value returned (order.reverse()) and the error thrown.
getTopologicalOrder(g) ==
    LET st == VisitEach(g, [visited |-> {}, temp |-> {}, order |-> <<>>,
                            err |-> "none"], g.tasks)
    IN  [order |-> IF st.err = "none" THEN Reverse(st.order) ELSE <<>>,
         err |-> st.err]

(***************************************************************************)
(* AdaptiveConcurrency (lib/adaptive-concurrency.js)                       *)
(***************************************************************************)
targetCpuUtilization == 70
targetMemoryUtilization == 80
historySize == 3

\* What cpu.usage() and mem.info().freeMemPercentage report.
CpuUsages == {40, 100}
FreeMemPercentages == {0, 50}

\* constructor.  Beside the fields of the object: timers, the interval
\* timers that are active; sampling, the _checkResources calls suspended
\* at their await; and, about the last step, the operation, its events,
\* the value of newConcurrency before line 96, and whether stop() has
\* returned with no start() since.
NewAdaptiveConcurrency(minConcurrency, maxConcurrency, adjustmentStep) ==
    [minConcurrency |-> minConcurrency,
     maxConcurrency |-> maxConcurrency,
     adjustmentStep |-> adjustmentStep,
     currentConcurrency |-> maxConcurrency,
     isMonitoring |-> FALSE,
     monitorInterval |-> "null",
     cpu |-> <<>>,
     memory |-> <<>>,
     timers |-> 0,
     sampling |-> 0,
     op |-> "none",
     emitted |-> <<>>,
     proposal |-> 0,
     halted |-> FALSE]

AcEv(type, n, previous) == [type |-> type, n |-> n, previous |-> previous]

\* A call begins: nothing emitted yet.
acBegin(a, op) == [a EXCEPT !.op = op, !.emitted = <<>>, !.proposal = 0]

acEmit(a, type, n, previous) ==
    [a EXCEPT !.emitted = Append(@, AcEv(type, n, previous))]

acStart(a) ==
    IF a.isMonitoring THEN a
    ELSE [a EXCEPT !.isMonitoring = TRUE,
                   !.monitorInterval = "timer",
                   !.timers = @ + 1]

\* clearInterval cancels the timer whose handle it is given.
acStop(a) ==
    IF ~a.isMonitoring THEN a
    ELSE [a EXCEPT !.isMonitoring = FALSE,
                   !.timers = IF a.monitorInterval = "timer" THEN @ - 1 ELSE @,
                   !.monitorInterval = "null"]

addMetric(history, value) ==
    LET pushed == Append(history, value) IN
    IF Len(pushed) > historySize THEN Tail(pushed) ELSE pushed

RECURSIVE Sum(_)
Sum(s) == IF s = <<>> THEN 0 ELSE Head(s) + Sum(Tail(s))

\* _getAverageMetric(type) > bound and < bound, without the division:
\* sum / length > bound iff sum > bound * length; the average of an
\* empty history is 0.
AverageAbove(history, bound) ==
    IF history = <<>> THEN 0 > bound ELSE Sum(history) > bound * Len(history)

AverageBelow(history, bound) ==
    IF history = <<>> THEN 0 < bound ELSE Sum(history) < bound * Len(history)

\* Lines 78-93: newConcurrency before it is clamped.
controlLaw(a) ==
    LET afterCpu ==
            IF AverageAbove(a.cpu, targetCpuUtilization + 10)
            THEN a.currentConcurrency - a.adjustmentStep
            ELSE IF /\ AverageBelow(a.cpu, targetCpuUtilization - 10)
                    /\ AverageBelow(a.memory, targetMemoryUtilization)
                 THEN a.currentConcurrency + a.adjustmentStep
                 ELSE a.currentConcurrency
    IN  IF AverageAbove(a.memory, targetMemoryUtilization + 10)
        THEN afterCpu - a.adjustmentStep
        ELSE afterCpu

clamp_NoFloor(a, n) == Min(a.maxConcurrency, n)

clamp(a, n) == Max(a.minConcurrency, Min(a.maxConcurrency, n))

applyProposal_Always(a, proposal) ==
    LET newConcurrency == clamp(a, proposal) IN
    acEmit(acEmit([a EXCEPT !.currentConcurrency = newConcurrency,
                            !.proposal = proposal],
                  "concurrency-update", newConcurrency, 0),
           "metrics", newConcurrency, a.currentConcurrency)

\* Lines 96-112: clamp, and update and emit when the value changes.
applyProposal(a, proposal) ==
    LET newConcurrency == clamp(a, proposal)
        previousConcurrency == a.currentConcurrency
    IN  IF newConcurrency # a.currentConcurrency
        THEN acEmit(acEmit([a EXCEPT !.currentConcurrency = newConcurrency,
                                     !.proposal = proposal],
                           "concurrency-update", newConcurrency, 0),
                    "metrics", newConcurrency, previousConcurrency)
        ELSE [a EXCEPT !.proposal = proposal]

\* _checkResources after its await resolved with the two readings.
checkResources(a, cpuUsage, freeMemPercentage) ==
    LET memoryUsage == 100 - freeMemPercentage
        a1 == [a EXCEPT !.cpu = addMetric(@, cpuUsage),
                        !.memory = addMetric(@, memoryUsage)]
    IN  applyProposal(a1, controlLaw(a1))

checkResourcesFailed_Stops(a) == acEmit(acStop(a), "error", 0, 0)

\* _checkResources after its await rejected: the catch block.
checkResourcesFailed(a) == acEmit(a, "error", 0, 0)

acSetConcurrency(a, concurrency) ==
    LET newConcurrency == clamp(a, concurrency) IN
    IF newConcurrency # a.currentConcurrency
    THEN acEmit([a EXCEPT !.currentConcurrency = newConcurrency],
                "concurrency-update", newConcurrency, 0)
    ELSE a

(***************************************************************************)
(* The graph on its own: calls of addTask, addDependency, markCompleted.   *)
(***************************************************************************)
DepArgs == UNION {[1..n -> Ids] : n \in 1..MaxDepArgs}

InitOutcome == [i \in Ids |-> "ok"]

InitSeen ==
    [starts |-> [i \in Ids |-> 0], completes |-> {}, errors |-> {}, qc |-> 0]

NewQueueManager(c) ==
    [concurrency |-> c,
     running |-> {},
     queue |-> <<>>,
     isProcessing |-> FALSE,
     isPaused |-> FALSE,
     stats |-> [completed |-> 0, failed |-> 0, total |-> 0,
                startTime |-> "null", endTime |-> "null"]]

\* A call on the TaskGraph: the method, its arguments, the value returned.
Call(op, taskId, dependsOn, value) ==
    [op |-> op, taskId |-> taskId, dependsOn |-> dependsOn, value |-> value]

NoCall == Call("none", 0, <<>>, <<>>)

InitGraph ==
    /\ taskGraph = NewTaskGraph
    /\ qm = NewQueueManager(1)
    /\ loops = 0
    /\ inflight = [i \in Ids |-> 0]
    /\ stopWaits = FALSE
    /\ awaited = {}
    /\ outcome = InitOutcome
    /\ emitted = <<>>
    /\ seen = InitSeen
    /\ raised = "none"
    /\ call = NoCall
    /\ ac = NewAdaptiveConcurrency(1, MaxAcConc, 1)
    /\ pauseFence = FALSE
    /\ stopFence = FALSE

GraphCall(r, c) ==
    /\ taskGraph' = r.g
    /\ raised' = r.err
    /\ call' = c
    /\ UNCHANGED <<schedVars, ac>>

AddTask ==
    \E id \in Ids :
        GraphCall(addTask(taskGraph, id), Call("addTask", id, <<>>, <<>>))

AddDependency ==
    \E id \in Ids, dependsOn \in DepArgs :
        GraphCall(addDependency(taskGraph, id, dependsOn),
                  Call("addDependency", id, dependsOn, <<>>))

MarkCompleted ==
    \E id \in Ids :
        GraphCall(markCompleted(taskGraph, id),
                  Call("markCompleted", id, <<>>, <<>>))

GetTopologicalOrder ==
    LET r == getTopologicalOrder(taskGraph) IN
    GraphCall([g |-> taskGraph, err |-> r.err],
              Call("getTopologicalOrder", 0, <<>>, r.order))

GetReadyTasks ==
    GraphCall(Ret(taskGraph),
              Call("getReadyTasks", 0, <<>>, getReadyTasks(taskGraph)))

IsComplete ==
    GraphCall(Ret(taskGraph),
              Call("isComplete", 0, <<>>, <<isComplete(taskGraph)>>))

NextGraph ==
    \/ AddTask
    \/ AddDependency
    \/ MarkCompleted
    \/ GetTopologicalOrder
    \/ GetReadyTasks
    \/ IsComplete

SpecGraph == InitGraph /\ [][NextGraph]_vars

\* The ids reachable from id along dependencies edges, in one or more steps.
RECURSIVE ReachFrom(_, _, _)
ReachFrom(g, frontier, acc) ==
    LET next == UNION {Range(g.dependencies[i]) : i \in frontier} \ acc IN
    IF next = {} THEN acc ELSE ReachFrom(g, next, acc \cup next)

TransDeps(g, id) == ReachFrom(g, {id}, {})

Acyclic(g) == \A id \in Ids : id \notin TransDeps(g, id)


(***************************************************************************)
(* QueueManager                                                            *)
(*                                                                         *)
(* The operators below work on a record w of everything a synchronous      *)
(* segment of the QueueManager reads and writes:                           *)
(*   w.g the graph, w.qm the manager's fields, w.loops, w.inflight,        *)
(*   w.emitted the events emitted so far in this segment,                  *)
(*   w.full set when a launch exceeded MaxExec (a model bound).            *)
(***************************************************************************)
Ev(type, id) == [type |-> type, id |-> id]

Emit(w, type, id) == [w EXCEPT !.emitted = Append(@, Ev(type, id))]

\* Counters are unbounded in the code; the model stops counting at MaxCount.
Inc(n) == Min(n + 1, MaxCount)

RunningSize(q) == Cardinality(q.running)

\* _updateQueue: push every ready id that is neither queued nor running.
RECURSIVE PushReady(_, _, _)
PushReady(queue, running, readyTasks) ==
    IF readyTasks = <<>> THEN queue
    ELSE LET taskId == Head(readyTasks) IN
         IF ~Includes(queue, taskId) /\ taskId \notin running
         THEN PushReady(Append(queue, taskId), running, Tail(readyTasks))
         ELSE PushReady(queue, running, Tail(readyTasks))

updateQueue(w) ==
    [w EXCEPT !.qm.queue = PushReady(@, w.qm.running, getReadyTasks(w.g))]

\* _executeTask up to its return: the async body runs to its first await
\* (it emits task-start and calls the TaskFn), then the promise is stored
\* in the running Map.
executeTask(w, taskId) ==
    LET w1 == Emit(w, "task-start", taskId) IN
    [w1 EXCEPT !.inflight[taskId] = @ + 1,
               !.full = @ \/ w.inflight[taskId] >= MaxExec,
               !.qm.running = @ \cup {taskId}]

\* A variant of MayDispatch without the test of the bound.
MayDispatch_NoBound(q) == Len(q.queue) > 0

\* The condition of the while loop of _processQueue.
MayDispatch(q) == Len(q.queue) > 0 /\ RunningSize(q) < q.concurrency

\* One turn of the while loop of _processQueue: test the condition, shift
\* a task id, call _executeTask and suspend at the await; or leave the loop.
LoopTurn(w) ==
    IF MayDispatch(w.qm)
    THEN LET taskId == Head(w.qm.queue)
             w1 == [w EXCEPT !.qm.queue = Tail(@)]
         IN  [executeTask(w1, taskId) EXCEPT !.loops = @ + 1]
    ELSE w

\* A call of _processQueue up to its first await.
processQueue(w) ==
    IF ~w.qm.isProcessing \/ w.qm.isPaused THEN w ELSE LoopTurn(w)

\* A variant of start without the test of isProcessing.
start_NoGuard(w) ==
    LET w1 == [w EXCEPT !.qm.isProcessing = TRUE,
                        !.qm.isPaused = FALSE,
                        !.qm.stats.startTime = "time",
                        !.qm.stats.total = Len(w.g.tasks)]
    IN  processQueue(updateQueue(w1))

start(w) ==
    IF w.qm.isProcessing THEN w
    ELSE LET w1 == [w EXCEPT !.qm.isProcessing = TRUE,
                             !.qm.isPaused = FALSE,
                             !.qm.stats.startTime = "time",
                             !.qm.stats.total = Len(w.g.tasks)]
         IN  processQueue(updateQueue(w1))

pause(w) == Emit([w EXCEPT !.qm.isPaused = TRUE], "paused", 0)

\* A variant of resume that does not call _processQueue.
resume_NoDispatch(w) ==
    IF ~w.qm.isProcessing \/ ~w.qm.isPaused THEN start(w)
    ELSE Emit([w EXCEPT !.qm.isPaused = FALSE], "resumed", 0)

resume(w) ==
    IF ~w.qm.isProcessing \/ ~w.qm.isPaused THEN start(w)
    ELSE Emit(processQueue([w EXCEPT !.qm.isPaused = FALSE]), "resumed", 0)

\* stop() up to its await, or to its end when it does not wait.
stopHead(w) == [w EXCEPT !.qm.isProcessing = FALSE, !.qm.queue = <<>>]

stopWaitsFor(w, waitForRunning) == waitForRunning /\ RunningSize(w.qm) > 0

\* The event's id tells which call emitted it (the code's event has no
\* payload): 1 for stop(true), 0 for stop(false).
stopTail(w, waitForRunning) ==
    Emit([w EXCEPT !.qm.stats.endTime = "time"], "stopped",
         IF waitForRunning THEN 1 ELSE 0)

\* A variant of the test of setConcurrency that rejects nothing.
invalidConcurrency_Never(concurrency) == FALSE

\* The test of setConcurrency's argument (always a number here).
invalidConcurrency(concurrency) == concurrency < 1

\* A variant of setConcurrency that does not call _processQueue.
setConcurrency_NoDispatch(w, concurrency) ==
    Emit([w EXCEPT !.qm.concurrency = concurrency],
         "concurrency-changed", concurrency)

\* A variant of setConcurrency that drops the running tasks when the new
\* bound is below their number.
setConcurrency_Preempt(w, concurrency) ==
    LET w1 == Emit([w EXCEPT !.qm.concurrency = concurrency,
                             !.qm.running = IF Cardinality(@) > concurrency
                                            THEN {} ELSE @],
                   "concurrency-changed", concurrency)
    IN  IF w1.qm.isProcessing /\ ~w1.qm.isPaused THEN processQueue(w1) ELSE w1

setConcurrency(w, concurrency) ==
    LET w1 == Emit([w EXCEPT !.qm.concurrency = concurrency],
                   "concurrency-changed", concurrency)
    IN  IF w1.qm.isProcessing /\ ~w1.qm.isPaused THEN processQueue(w1) ELSE w1

\* A variant of reset that does not clear the running Map.
reset_KeepRunning(w) ==
    LET w1 == stopTail(stopHead(w), FALSE)
        w2 == [w1 EXCEPT !.g = graphReset(@),
                         !.qm.queue = <<>>,
                         !.qm.stats = [completed |-> 0, failed |-> 0, total |-> 0,
                                       startTime |-> "null", endTime |-> "null"]]
    IN  Emit(w2, "reset", 0)

reset(w) ==
    LET w1 == stopTail(stopHead(w), FALSE)
        w2 == [w1 EXCEPT !.g = graphReset(@),
                         !.qm.running = {},
                         !.qm.queue = <<>>,
                         !.qm.stats = [completed |-> 0, failed |-> 0, total |-> 0,
                                       startTime |-> "null", endTime |-> "null"]]
    IN  Emit(w2, "reset", 0)

\* The continuation of the async body of _executeTask after the TaskFn
\* settled: the try block (success) or the catch block, then finally.
\* A variant of settleTry that leaves processing mode at queue-complete.
settleTry_Finishes(w, taskId) ==
    LET w1 == [w EXCEPT !.g = markCompleted(@, taskId).g,
                        !.qm.stats.completed = Inc(@)]
        w2 == Emit(w1, "task-complete", taskId)
    IN  IF isComplete(w2.g)
        THEN Emit([w2 EXCEPT !.qm.stats.endTime = "time",
                             !.qm.isProcessing = FALSE], "queue-complete", 0)
        ELSE w2

settleTry(w, taskId) ==
    LET w1 == [w EXCEPT !.g = markCompleted(@, taskId).g,
                        !.qm.stats.completed = Inc(@)]
        w2 == Emit(w1, "task-complete", taskId)
    IN  IF isComplete(w2.g)
        THEN Emit([w2 EXCEPT !.qm.stats.endTime = "time"], "queue-complete", 0)
        ELSE w2

\* A variant of settleCatch in which the failure stops the scheduler.
settleCatch_TearDown(w, taskId) ==
    stopHead(Emit([w EXCEPT !.qm.stats.failed = Inc(@)], "task-error", taskId))

settleCatch(w, taskId) ==
    Emit([w EXCEPT !.qm.stats.failed = Inc(@)], "task-error", taskId)

\* A variant of settleFinally that does not refresh the queue.
settleFinally_NoRefresh(w, taskId) ==
    processQueue([w EXCEPT !.qm.running = @ \ {taskId}])

settleFinally(w, taskId) ==
    processQueue(updateQueue([w EXCEPT !.qm.running = @ \ {taskId}]))

settle(w, taskId, success) ==
    settleFinally(IF success THEN settleTry(w, taskId) ELSE settleCatch(w, taskId),
                  taskId)


(***************************************************************************)
(* The scheduler's steps                                                   *)
(***************************************************************************)
Cur ==
    [g |-> taskGraph, qm |-> qm, loops |-> loops, inflight |-> inflight,
     emitted |-> <<>>, full |-> FALSE]

Count(evs, type, id) ==
    Cardinality({i \in 1..Len(evs) : evs[i] = Ev(type, id)})

Absorb(sn, evs) ==
    [starts |-> [i \in Ids |->
                    Min(SeenCap, sn.starts[i] + Count(evs, "task-start", i))],
     completes |-> sn.completes \cup
                    {i \in Ids : Count(evs, "task-complete", i) > 0},
     errors |-> sn.errors \cup {i \in Ids : Count(evs, "task-error", i) > 0},
     qc |-> Min(SeenCap, sn.qc + Count(evs, "queue-complete", 0))]

\* The state after a segment that ended in the world end.
Commit(end, newRun) ==
    \E w \in {end} :
        /\ ~w.full
        /\ w.loops <= MaxLoops
        /\ taskGraph' = w.g
        /\ qm' = w.qm
        /\ loops' = w.loops
        /\ inflight' = w.inflight
        /\ emitted' = w.emitted
        /\ seen' = IF newRun THEN InitSeen ELSE Absorb(seen, emitted)
        /\ raised' = "none"
        /\ UNCHANGED <<call, ac>>

Start ==
    /\ Commit(start(Cur), FALSE)
    /\ pauseFence' = FALSE
    /\ stopFence' = FALSE
    /\ UNCHANGED <<stopWaits, awaited, outcome>>

Pause ==
    /\ Commit(pause(Cur), FALSE)
    /\ pauseFence' = (pauseFence \/ qm.isProcessing)
    /\ UNCHANGED <<stopWaits, awaited, outcome, stopFence>>

Resume ==
    /\ Commit(resume(Cur), FALSE)
    /\ pauseFence' = FALSE
    /\ stopFence' = FALSE
    /\ UNCHANGED <<stopWaits, awaited, outcome>>

\* stop(waitForRunning): with promises to await it suspends at
\* Promise.all(running.values()), and StopFinish is its continuation;
\* otherwise it runs to its end.  The promise the running Map holds for a
\* task id is that of the id's latest launch, which is in flight: any
\* settlement of the id deletes the entry.  The model follows one
\* suspended stop() at a time.
Stop ==
    \E waitForRunning \in BOOLEAN :
        LET w == stopHead(Cur) IN
        /\ IF stopWaitsFor(w, waitForRunning)
           THEN /\ ~stopWaits
                /\ Commit(w, FALSE)
                /\ stopWaits' = TRUE
                /\ awaited' = qm.running
           ELSE /\ Commit(stopTail(w, waitForRunning), FALSE)
                /\ UNCHANGED <<stopWaits, awaited>>
        /\ stopFence' = TRUE
        /\ UNCHANGED <<outcome, pauseFence>>

StopFinish ==
    /\ stopWaits
    /\ awaited = {}
    /\ Commit(stopTail(Cur, TRUE), FALSE)
    /\ stopWaits' = FALSE
    /\ UNCHANGED <<awaited, outcome, pauseFence, stopFence>>

Reset ==
    /\ Commit(reset(Cur), TRUE)
    /\ UNCHANGED <<stopWaits, awaited, outcome, pauseFence, stopFence>>

SetConcurrency ==
    \E concurrency \in 0..MaxConc :
        /\ IF invalidConcurrency(concurrency)
           THEN /\ raised' = "invalid"
                /\ emitted' = <<>>
                /\ seen' = Absorb(seen, emitted)
                /\ UNCHANGED <<taskGraph, qm, loops, inflight, call, ac>>
           ELSE Commit(setConcurrency(Cur, concurrency), FALSE)
        /\ UNCHANGED <<stopWaits, awaited, outcome, pauseFence, stopFence>>

\* An execution of taskId's TaskFn settles, and the body of _executeTask
\* resumes.  isAwaited: it is the execution a suspended stop() awaits.
SettleOf(taskId) ==
    \E success \in BOOLEAN, isAwaited \in BOOLEAN :
        /\ inflight[taskId] > 0
        /\ isAwaited => taskId \in awaited
        /\ ~isAwaited => inflight[taskId] > (IF taskId \in awaited THEN 1 ELSE 0)
        /\ outcome[taskId] # (IF success THEN "fail" ELSE "ok")
        /\ Commit(settle([Cur EXCEPT !.inflight[taskId] = @ - 1], taskId, success),
                  FALSE)
        /\ awaited' = IF isAwaited THEN awaited \ {taskId} ELSE awaited
        /\ UNCHANGED <<stopWaits, outcome, pauseFence, stopFence>>

Settle == \E taskId \in Ids : SettleOf(taskId)

\* A suspended _processQueue loop resumes after its await.
LoopResume ==
    /\ loops > 0
    /\ Commit(LoopTurn([Cur EXCEPT !.loops = @ - 1]), FALSE)
    /\ UNCHANGED <<stopWaits, awaited, outcome, pauseFence, stopFence>>

(***************************************************************************)
(* Initial states: a graph built by addTask and addDependency calls, a     *)
(* QueueManager constructed on it, and what each TaskFn will do.           *)
(***************************************************************************)
RECURSIVE Registered(_)
Registered(n) ==
    IF n = 0 THEN NewTaskGraph ELSE addTask(Registered(n - 1), n).g

\* calls: a sequence of <<taskId, dependsOn>> handed to addDependency.
RECURSIVE WithDeps(_, _)
WithDeps(g, calls) ==
    IF calls = <<>> THEN g
    ELSE WithDeps(addDependency(g, Head(calls)[1], Head(calls)[2]).g, Tail(calls))

Graphs ==
    {WithDeps(Registered(NTasks), calls) : calls \in
        { <<>>,                                   \* independent tasks
          [i \in 1..(NTasks - 1) |-> <<i + 1, <<i>>>>],   \* a chain
          << <<2, <<1>>>> >>,                     \* 2 after 1, the rest free
          << <<3, <<1, 2>>>> >>,                  \* 3 after 1 and 2
          << <<2, <<1>>>>, <<3, <<1>>>> >>,       \* 2 and 3 after 1
          << <<2, <<1>>>>, <<1, <<2>>>> >> }}     \* 1 and 2 after each other

\* The TaskFns of the first MaxBad ids may fail, always or sometimes.
Outcomes ==
    {o \in [Ids -> {"ok", "fail", "flaky"}] : \A i \in Ids : i > MaxBad => o[i] = "ok"}

Init ==
    /\ taskGraph \in Graphs
    /\ \E c \in 1..MaxConc : qm = NewQueueManager(c)
    /\ loops = 0
    /\ inflight = [i \in Ids |-> 0]
    /\ stopWaits = FALSE
    /\ awaited = {}
    /\ outcome \in Outcomes
    /\ emitted = <<>>
    /\ seen = InitSeen
    /\ raised = "none"
    /\ call = NoCall
    /\ ac = NewAdaptiveConcurrency(1, MaxAcConc, 1)
    /\ pauseFence = FALSE
    /\ stopFence = FALSE

Next ==
    \/ Start
    \/ Pause
    \/ Resume
    \/ Stop
    \/ StopFinish
    \/ SetConcurrency
    \/ Settle
    \/ LoopResume

\* One run of a QueueManager: every operation but reset().
Spec == Init /\ [][Next]_vars

\* Runs separated by reset(): start(), reset() and the event loop.
NextReset == Start \/ Reset \/ Settle \/ LoopResume

SpecReset == Init /\ [][NextReset]_vars


\* A run left alone: start() and the event loop, no other call.  Every
\* suspended loop resumes and every launched TaskFn settles.
NextRun == Start \/ Settle \/ LoopResume

SpecRun ==
    /\ Init
    /\ [][NextRun]_vars
    /\ WF_vars(LoopResume)
    /\ \A taskId \in Ids : SF_vars(SettleOf(taskId))

(***************************************************************************)
(* The adaptive controller on its own: start(), stop(), setConcurrency(),  *)
(* the interval timer firing, and the samples it takes.                    *)
(***************************************************************************)
InitAdaptive ==
    /\ taskGraph = NewTaskGraph
    /\ qm = NewQueueManager(1)
    /\ loops = 0
    /\ inflight = [i \in Ids |-> 0]
    /\ stopWaits = FALSE
    /\ awaited = {}
    /\ outcome = InitOutcome
    /\ emitted = <<>>
    /\ seen = InitSeen
    /\ raised = "none"
    /\ call = NoCall
    /\ pauseFence = FALSE
    /\ stopFence = FALSE
    /\ \E minConcurrency \in 1..MaxAcConc, adjustmentStep \in 1..MaxStep :
          \E maxConcurrency \in minConcurrency..MaxAcConc :
              ac = NewAdaptiveConcurrency(minConcurrency, maxConcurrency,
                                          adjustmentStep)

AcStart ==
    /\ ac' = [acStart(acBegin(ac, "start")) EXCEPT !.halted = FALSE]
    /\ UNCHANGED otherVars

AcStop ==
    /\ ac' = [acStop(acBegin(ac, "stop")) EXCEPT !.halted = TRUE]
    /\ UNCHANGED otherVars

\* An interval timer fires: _checkResources runs to its await.
AcTick ==
    /\ ac.timers > 0
    /\ ac.sampling < MaxSamples
    /\ ac' = [acBegin(ac, "tick") EXCEPT !.sampling = @ + 1]
    /\ UNCHANGED otherVars

\* The readings arrive and _checkResources resumes.
AcSample ==
    \E cpuUsage \in CpuUsages, freeMemPercentage \in FreeMemPercentages :
        /\ ac.sampling > 0
        /\ ac' = checkResources([acBegin(ac, "sample") EXCEPT !.sampling = @ - 1],
                                 cpuUsage, freeMemPercentage)
        /\ UNCHANGED otherVars

\* A reading fails and _checkResources resumes in its catch block.
AcSampleFailed ==
    /\ ac.sampling > 0
    /\ ac' = checkResourcesFailed([acBegin(ac, "error") EXCEPT !.sampling = @ - 1])
    /\ UNCHANGED otherVars

AcSetConcurrency ==
    \E concurrency \in 0..(MaxAcConc + 1) :
        /\ ac' = acSetConcurrency(acBegin(ac, "setConcurrency"), concurrency)
        /\ UNCHANGED otherVars

NextAdaptive ==
    \/ AcStart
    \/ AcStop
    \/ AcTick
    \/ AcSample
    \/ AcSampleFailed
    \/ AcSetConcurrency

SpecAdaptive == InitAdaptive /\ [][NextAdaptive]_vars

(***************************************************************************)
(* Properties                                                              *)
(***************************************************************************)
IsEv(e, type) == e.type = type

Emitted(type, id) == Count(emitted, type, id) > 0

EmittedType(type) == \E i \in 1..Len(emitted) : emitted[i].type = type

\* Events of this run up to and including the last step.
StartsSoFar(id) == seen.starts[id] + Count(emitted, "task-start", id)

QueueCompleteSoFar == seen.qc > 0 \/ Emitted("queue-complete", 0)

\* task-complete(x) was emitted before the i-th event of the last step.
CompleteBefore(x, i) ==
    \/ x \in seen.completes
    \/ \E j \in 1..(i - 1) : emitted[j] = Ev("task-complete", x)

\* task-error(x) was emitted before the i-th event of the last step.
ErrorBefore(x, i) ==
    \/ x \in seen.errors
    \/ \E j \in 1..(i - 1) : emitted[j] = Ev("task-error", x)

Deps(id) == Range(taskGraph.dependencies[id])

\* C1: the deps relation is acyclic after any sequence of addTask,
\* addDependency and markCompleted calls.
C1_DepsAcyclic == Acyclic(taskGraph)

\* C2: every task-start(y) comes after a task-complete(x) for every x in
\* deps[y]; in particular task-complete(x) precedes the task-start of the
\* dependents it unblocks.
C2_StartAfterDepsComplete ==
    \A i \in 1..Len(emitted) :
        IsEv(emitted[i], "task-start") =>
            \A x \in Deps(emitted[i].id) : CompleteBefore(x, i)

C2_Witness ==
    \E i \in 1..Len(emitted) :
        /\ IsEv(emitted[i], "task-start")
        /\ Deps(emitted[i].id) # {}
        /\ \E j \in 1..(i - 1) :
              /\ IsEv(emitted[j], "task-complete")
              /\ emitted[j].id \in Deps(emitted[i].id)

C4_FailedBlocksDependents ==
    /\ \A x \in Ids :
          ErrorBefore(x, Len(emitted) + 1) => x \notin taskGraph.completed
    /\ \A i \in 1..Len(emitted) :
          IsEv(emitted[i], "task-start") =>
              \A x \in TransDeps(taskGraph, emitted[i].id) : ~ErrorBefore(x, i)

\* C5: task-start is emitted at most once per task id in a run.
C5_StartedAtMostOnce == \A id \in Ids : StartsSoFar(id) <= 1

Quiescent == qm.running = {} /\ qm.queue = <<>>

\* C6: with a TaskFn that always fails, the scheduler eventually reaches
\* quiescence and stays there.
C6_EventuallyQuiescent ==
    (\E id \in Ids : outcome[id] = "fail") => <>[]Quiescent

AllOk == \A id \in Ids : outcome[id] = "ok"

RunComplete ==
    /\ taskGraph.completed = Range(taskGraph.tasks)
    /\ QueueCompleteSoFar
    /\ qm.stats.completed = Len(taskGraph.tasks)
    /\ qm.stats.total = Len(taskGraph.tasks)

\* C7: on an acyclic graph whose TaskFns all succeed, once started the
\* run completes: every task is completed and queue-complete is emitted
\* with completed = total = the number of tasks.
C7_RunCompletes ==
    (AllOk /\ Acyclic(taskGraph)) => (qm.isProcessing ~> RunComplete)

C7_Witness == AllOk /\ Acyclic(taskGraph) /\ RunComplete /\ Emitted("queue-complete", 0)

\* C8: after pause() on a processing scheduler and until the next resume()
\* or start(), no task-start is emitted.
C8_NoStartWhilePaused == pauseFence => ~EmittedType("task-start")

\* C9: after stop() and until the next start() or resume(), no task-start
\* is emitted.
C9_NoStartAfterStop == stopFence => ~EmittedType("task-start")

\* C10: when stop(true) emits stopped (no start() or resume() since the
\* call), the running set is empty.
C10_StoppedAfterDrain ==
    (stopFence /\ Emitted("stopped", 1)) => qm.running = {}

TaskEvents == {"task-start", "task-complete", "task-error"}

HasType(evs, types) == \E i \in 1..Len(evs) : evs[i].type \in types

\* The last step emitted queue-complete in a run that is under way, and
\* the step taken now belongs to the same run: it is not a reset().  (With
\* isProcessing set, a start() returns at once and begins no new run.)
SameRunAfterQueueComplete ==
    /\ Emitted("queue-complete", 0)
    /\ qm.isProcessing
    /\ ~HasType(emitted', {"reset"})

\* C11: queue-complete is emitted at most once per run, whatever was in
\* flight when reset() was called: a step that follows a queue-complete
\* in the same run emits no other queue-complete.
C11_QueueCompleteAtMostOnce ==
    [][SameRunAfterQueueComplete => ~HasType(emitted', {"queue-complete"})]_vars

\* C12: once queue-complete was emitted in a run, no task-start,
\* task-complete or task-error is emitted later in that run: a step that
\* follows a queue-complete in the same run emits no task event.
C12_NoTaskEventAfterQueueComplete ==
    [][SameRunAfterQueueComplete => ~HasType(emitted', TaskEvents)]_vars

\* C13: completed + failed <= total throughout, and completed + failed =
\* total when queue-complete is emitted.
C13_CountersWithinTotal ==
    /\ qm.stats.completed + qm.stats.failed <= qm.stats.total
    /\ Emitted("queue-complete", 0) =>
          qm.stats.completed + qm.stats.failed = qm.stats.total

ErrorSoFar(x) == ErrorBefore(x, Len(emitted) + 1)

StartedAndCompleted(y) ==
    /\ StartsSoFar(y) > 0
    /\ CompleteBefore(y, Len(emitted) + 1)
    /\ y \in taskGraph.completed

\* y's TaskFn succeeds, and so does that of every task y depends on: y
\* depends on no task that fails.
Unrelated(y) ==
    \A z \in {y} \cup TransDeps(taskGraph, y) : outcome[z] = "ok"

IndexOf(s, x) == IF Includes(s, x) THEN CHOOSE i \in 1..Len(s) : s[i] = x ELSE 0

IsPermutationOf(s, ids) ==
    /\ Len(s) = Cardinality(ids)
    /\ Range(s) = ids

\* C15: on an acyclic graph getTopologicalOrder returns a permutation of the
\* registered ids in which every prerequisite precedes its dependents.
C15_TopologicalOrder ==
    (call.op = "getTopologicalOrder" /\ Acyclic(taskGraph)) =>
        /\ raised = "none"
        /\ IsPermutationOf(call.value, Range(taskGraph.tasks))
        /\ \A x \in Range(taskGraph.tasks) : \A y \in Deps(x) :
              IndexOf(call.value, y) < IndexOf(call.value, x)

\* The step is a call of addDependency(x, y) with one prerequisite id.
AddsOne(x, y) ==
    /\ call'.op = "addDependency"
    /\ call'.taskId = x
    /\ call'.dependsOn = <<y>>

\* C16: a second addDependency(x, y), right after a first that returned,
\* returns without raising and leaves the graph as the first call left it.
C16_AddDependencyIdempotent ==
    [][\A x, y \in Ids :
          (/\ call = Call("addDependency", x, <<y>>, <<>>)
           /\ raised = "none"
           /\ AddsOne(x, y))
          => (raised' = "none" /\ taskGraph' = taskGraph)]_vars

\* C17: an addTask or addDependency call that raises leaves the graph as it
\* was before the call.
C17_RaisingCallLeavesGraph ==
    [][(call'.op \in {"addTask", "addDependency"} /\ raised' # "none")
          => taskGraph' = taskGraph]_vars

\* C18: addDependency(id, p) on registered ids returns and appends p to
\* deps[id] and id to rdeps[p] whenever p # id, p is not yet in deps[id] and
\* id is not reachable from p along deps edges.
C18_AcceptsNonCyclicEdge ==
    [][\A id, p \in Ids :
          (/\ AddsOne(id, p)
           /\ Has(taskGraph, id) /\ Has(taskGraph, p)
           /\ p # id
           /\ ~Includes(taskGraph.dependencies[id], p)
           /\ id \notin TransDeps(taskGraph, p))
          => /\ raised' = "none"
             /\ taskGraph' =
                   [taskGraph EXCEPT !.dependencies[id] = Append(@, p),
                                     !.dependents[p] = Append(@, id)]]_vars

NoDuplicates(s) == \A i, j \in 1..Len(s) : s[i] = s[j] => i = j

\* C19: dependencies and dependents are mutual inverses, hold registered
\* ids only, and hold no id twice.
C19_DepsAndDependentsInverse ==
    \A x \in Ids :
        /\ \A y \in Ids : Includes(taskGraph.dependencies[x], y)
                              <=> Includes(taskGraph.dependents[y], x)
        /\ Range(taskGraph.dependencies[x]) \subseteq Range(taskGraph.tasks)
        /\ Range(taskGraph.dependents[x]) \subseteq Range(taskGraph.tasks)
        /\ NoDuplicates(taskGraph.dependencies[x])
        /\ NoDuplicates(taskGraph.dependents[x])

\* An addDependency call with an array has just recorded two edges.
C19_Witness ==
    /\ call.op = "addDependency"
    /\ Len(call.dependsOn) = 2
    /\ raised = "none"
    /\ Len(taskGraph.dependencies[call.taskId]) = 2
    /\ \E y \in Ids : Len(taskGraph.dependents[y]) = 2

\* C20: addDependency(x, x) on a registered x raises a cycle error and
\* leaves the graph unchanged.
C20_SelfDependencyRejected ==
    [][\A x \in Ids :
          (AddsOne(x, x) /\ Has(taskGraph, x))
          => (raised' = "cycle" /\ taskGraph' = taskGraph)]_vars

C20_Witness ==
    /\ call.op = "addDependency"
    /\ call.dependsOn = <<call.taskId>>
    /\ Has(taskGraph, call.taskId)
    /\ raised = "cycle"

\* The ids of the sequence s that are in the set keep, in the order of s.
RECURSIVE Filter(_, _)
Filter(s, keep) ==
    IF s = <<>> THEN <<>>
    ELSE IF Head(s) \in keep THEN <<Head(s)>> \o Filter(Tail(s), keep)
    ELSE Filter(Tail(s), keep)

ReadySet(g) ==
    {x \in Range(g.tasks) :
        x \notin g.completed /\ Range(g.dependencies[x]) \subseteq g.completed}

\* C21: getReadyTasks returns exactly the registered ids that are not
\* completed and whose prerequisites are all completed, each once, in
\* registration order, and leaves the graph as it was.
C21_ReadyTasksExact ==
    [][call'.op = "getReadyTasks" =>
          /\ raised' = "none"
          /\ taskGraph' = taskGraph
          /\ call'.value = Filter(taskGraph.tasks, ReadySet(taskGraph))
          /\ NoDuplicates(call'.value)]_vars

\* getReadyTasks left out a completed id and an id that waits for a
\* prerequisite, and returned another.
C21_Witness ==
    /\ call.op = "getReadyTasks"
    /\ call.value # <<>>
    /\ taskGraph.completed # {}
    /\ \E x \in Range(taskGraph.tasks) :
          x \notin taskGraph.completed /\ ~Includes(call.value, x)

\* C22: markCompleted(x) on a registered x adds x to completed and changes
\* nothing else (so that a second call changes nothing); on an
\* unregistered x it raises and changes nothing; completed holds
\* registered ids only; isComplete is true exactly when completed has as
\* many ids as tasks.
C22_MarkCompleted ==
    [][/\ \A x \in Ids :
             (call'.op = "markCompleted" /\ call'.taskId = x) =>
                 IF x \in Range(taskGraph.tasks)
                 THEN /\ raised' = "none"
                      /\ taskGraph' =
                            [taskGraph EXCEPT !.completed = @ \cup {x}]
                 ELSE /\ raised' # "none"
                      /\ taskGraph' = taskGraph
       /\ taskGraph'.completed \subseteq Range(taskGraph'.tasks)
       /\ call'.op = "isComplete" =>
             call'.value = <<Cardinality(taskGraph.completed)
                               = Cardinality(Range(taskGraph.tasks))>>]_vars

\* markCompleted returned on the last id that was not completed.
C22_Witness ==
    /\ call.op = "markCompleted"
    /\ raised = "none"
    /\ call.taskId \in taskGraph.completed
    /\ isComplete(taskGraph)
    /\ Len(taskGraph.tasks) > 1

\* C23: the completed set is closed under deps: every prerequisite of a
\* completed task is completed.
C23_CompletedClosedUnderDeps ==
    \A x \in taskGraph.completed : Deps(x) \subseteq taskGraph.completed

\* The step is a call of setConcurrency(n) that returned.
ConcurrencySet(n) == emitted' # <<>> /\ emitted'[1] = Ev("concurrency-changed", n)

CanDispatch == qm.isProcessing /\ ~qm.isPaused /\ MayDispatch(qm)

\* C24: setConcurrency(n), called while processing and not paused with n
\* above |running| and a non-empty queue, launches the head of the queue
\* in the call itself and leaves a loop suspended that goes on; and a
\* suspended loop never returns while a task can be dispatched, so the
\* launches go on without any settlement.
C24_WideningDispatches ==
    [][/\ \A n \in 1..MaxConc :
             (/\ ConcurrencySet(n)
              /\ qm.isProcessing /\ ~qm.isPaused
              /\ n > RunningSize(qm)
              /\ qm.queue # <<>>)
             => /\ emitted' = <<Ev("concurrency-changed", n),
                                 Ev("task-start", Head(qm.queue))>>
                /\ qm'.running = qm.running \cup {Head(qm.queue)}
                /\ RunningSize(qm') = RunningSize(qm) + 1
                /\ RunningSize(qm') <= Min(n, RunningSize(qm) + Len(qm.queue))
                /\ qm'.queue = Tail(qm.queue)
                /\ loops' = loops + 1
       /\ CanDispatch => loops' >= loops]_vars

\* setConcurrency raised the bound above |running| and launched a task.
C24_Witness ==
    \E n \in 1..MaxConc :
        /\ Len(emitted) = 2
        /\ emitted[1] = Ev("concurrency-changed", n)
        /\ IsEv(emitted[2], "task-start")
        /\ RunningSize(qm) = n
        /\ n > 1

\* C25: setConcurrency(n) with n < 1 raises, emits nothing and leaves the
\* scheduler as it was; a call that returns has n >= 1, sets the bound to
\* n and emits concurrency-changed(n); the bound changes in no other way.
C25_SetConcurrencyValidates ==
    [][/\ raised' = "invalid" =>
             /\ qm' = qm
             /\ emitted' = <<>>
             /\ UNCHANGED <<taskGraph, loops, inflight>>
       /\ \A n \in 0..MaxConc :
             ConcurrencySet(n) => (n >= 1 /\ qm'.concurrency = n)
       /\ qm'.concurrency # qm.concurrency =>
             ConcurrencySet(qm'.concurrency)]_vars

\* setConcurrency(0) raised in the middle of a run.
C25_Witness ==
    /\ raised = "invalid"
    /\ emitted = <<>>
    /\ qm.isProcessing
    /\ qm.running # {}

\* C26: setConcurrency(n) removes no task from the running set, and after
\* a step that launched a task |running| is within the bound: a task is
\* launched only while |running| < concurrency.
C26_NoPreemptNoOverDispatch ==
    [][/\ \A n \in 1..MaxConc :
             ConcurrencySet(n) => qm.running \subseteq qm'.running
       /\ HasType(emitted', {"task-start"}) =>
             RunningSize(qm') <= qm'.concurrency]_vars

\* setConcurrency narrowed the bound below the number of running tasks.
C26_Witness ==
    \E n \in 1..MaxConc :
        /\ emitted = <<Ev("concurrency-changed", n)>>
        /\ RunningSize(qm) > n

\* C27: start() on a scheduler that is processing changes nothing and
\* launches nothing.
C27_StartWhileProcessingNoOp ==
    qm.isProcessing => start(Cur) = Cur

\* A processing scheduler on which a start() that did not return at once
\* would clear the paused flag and refill the queue.
C27_Witness ==
    /\ qm.isProcessing
    /\ qm.isPaused
    /\ start_NoGuard(Cur) # Cur
    /\ qm.running # {}

\* C28: resume() clears the paused flag and emits resumed, whatever the
\* mode; on a scheduler that is not processing it also does what start()
\* does.
C28_ResumeEmitsResumed ==
    LET w == resume(Cur) IN
    /\ ~w.qm.isPaused
    /\ HasType(w.emitted, {"resumed"})
    /\ ~qm.isProcessing =>
          /\ w.qm = start(Cur).qm
          /\ w.qm.isProcessing

ZeroStats ==
    [completed |-> 0, failed |-> 0, total |-> 0,
     startTime |-> "null", endTime |-> "null"]

\* C29: right after reset() the scheduler is not processing, running and
\* queue are empty, the counters are zero and the timestamps unset, the
\* completed set is empty, and tasks, deps and rdeps are as before.
C29_ResetClears ==
    [][HasType(emitted', {"reset"}) =>
          /\ ~qm'.isProcessing
          /\ qm'.running = {}
          /\ qm'.queue = <<>>
          /\ qm'.stats = ZeroStats
          /\ taskGraph' = [taskGraph EXCEPT !.completed = {}]]_vars

\* reset() was called in the middle of a run.
C29_Witness ==
    /\ HasType(emitted, {"reset"})
    /\ \E id \in Ids : inflight[id] > 0
    /\ loops > 0

\* A run ended with queue-complete and nothing is left in flight.
RunEnded ==
    /\ qm.isProcessing
    /\ QueueCompleteSoFar
    /\ isComplete(taskGraph)
    /\ qm.running = {}
    /\ \A id \in Ids : inflight[id] = 0

\* The scheduler as constructed, on the graph as built.
Fresh ==
    [g |-> [taskGraph EXCEPT !.completed = {}],
     qm |-> NewQueueManager(qm.concurrency),
     loops |-> 0, inflight |-> [id \in Ids |-> 0],
     emitted |-> <<>>, full |-> FALSE]

Waiting == ReadySet(taskGraph) \ qm.running

\* C34: no ready task is stranded.  While the scheduler is processing,
\* not paused and below its bound, every ready task that is not running
\* is in the queue, and with a non-empty queue a dispatch loop is
\* suspended, whose continuation launches the head of the queue; with no
\* loop suspended the graph is complete or no task is ready.
C34_NoReadyTaskStranded ==
    (qm.isProcessing /\ ~qm.isPaused /\ RunningSize(qm) < qm.concurrency) =>
        /\ Waiting \subseteq Range(qm.queue)
        /\ qm.queue # <<>> => loops > 0
        /\ loops = 0 => (isComplete(taskGraph) \/ Waiting = {})

\* A dispatch is pending after overlapping loops, a pause and a resume.
C34_Witness ==
    /\ qm.isProcessing /\ ~qm.isPaused /\ RunningSize(qm) < qm.concurrency
    /\ qm.queue # <<>>
    /\ loops = MaxLoops
    /\ HasType(emitted, {"resumed"})

\* C35: the queue holds no id twice, and every id in it is a registered
\* task that is ready and neither running nor completed.
C35_QueueHoldsReadyTasks ==
    /\ NoDuplicates(qm.queue)
    /\ Range(qm.queue) \subseteq ReadySet(taskGraph) \ qm.running

\* C36: the running set is the set of tasks with an execution in flight,
\* and no task has two executions in flight.
C36_RunningIsInFlight ==
    /\ qm.running = {id \in Ids : inflight[id] > 0}
    /\ \A id \in Ids : inflight[id] <= 1

SettleStep == HasType(emitted', {"task-complete", "task-error", "queue-complete"})

SetConcurrencyStep ==
    raised' = "invalid" \/ HasType(emitted', {"concurrency-changed"})

\* A loop continuation: it returned, or it launched one task.
DispatchStep ==
    \/ loops' = loops - 1
    \/ loops' = loops /\ Len(emitted') = 1 /\ IsEv(emitted'[1], "task-start")

\* C37: a settlement, a dispatch step, setConcurrency and the emission of
\* queue-complete leave isProcessing and isPaused as they are.
C37_ModeFlagsFrame ==
    [][(SettleStep \/ SetConcurrencyStep \/ DispatchStep) =>
          /\ qm'.isProcessing = qm.isProcessing
          /\ qm'.isPaused = qm.isPaused]_vars

\* queue-complete was emitted on a scheduler that was paused meanwhile.
C37_Witness ==
    /\ Emitted("queue-complete", 0)
    /\ qm.isProcessing
    /\ qm.isPaused

IsChain(g) ==
    \A i \in 2..Len(g.tasks) : g.dependencies[g.tasks[i]] = <<g.tasks[i - 1]>>

\* C38: two tasks of which one depends on the other, directly or
\* transitively, are never running together; on a chain at most one task
\* is running.
C38_RelatedNeverTogether ==
    /\ \A x, y \in qm.running : x \notin TransDeps(taskGraph, y)
    /\ IsChain(taskGraph) => RunningSize(qm) <= 1

(***************************************************************************)
(* Properties of the adaptive controller                                   *)
(***************************************************************************)
\* The step is a sample that resumed with its readings.
SampleStep == ac'.op = "sample" /\ ac'.sampling = ac.sampling - 1

\* The step is a sample that resumed with a failure.
SampleFailedStep == ac'.op = "error" /\ ac'.sampling = ac.sampling - 1

AcEmitted(a, type) == {i \in 1..Len(a.emitted) : a.emitted[i].type = type}

InRange(a, n) == a.minConcurrency <= n /\ n <= a.maxConcurrency

CpuHot(a) == AverageAbove(a.cpu, targetCpuUtilization + 10)
CpuCool(a) == AverageBelow(a.cpu, targetCpuUtilization - 10)
MemoryFree(a) == AverageBelow(a.memory, targetMemoryUtilization)
MemoryPressure(a) == AverageAbove(a.memory, targetMemoryUtilization + 10)

\* C31: the recommended concurrency and every concurrency-update emitted
\* lie within [minConcurrency, maxConcurrency]; a sample that finds the
\* average CPU too high with the value above the minimum lowers it, and
\* never below the minimum.
C31_WithinBounds ==
    /\ [](/\ InRange(ac, ac.currentConcurrency)
          /\ \A i \in AcEmitted(ac, "concurrency-update") :
                 InRange(ac, ac.emitted[i].n))
    /\ [][(SampleStep /\ CpuHot(ac') /\ ac.currentConcurrency > ac.minConcurrency) =>
             /\ ac'.currentConcurrency < ac.currentConcurrency
             /\ ac'.currentConcurrency >= ac.minConcurrency]_vars

\* A sample under high CPU brought the value down to the minimum, where
\* the proposal was below it.
C31_Witness ==
    /\ ac.op = "sample"
    /\ CpuHot(ac)
    /\ ac.minConcurrency < ac.maxConcurrency
    /\ ac.currentConcurrency = ac.minConcurrency
    /\ ac.proposal < ac.minConcurrency
    /\ AcEmitted(ac, "concurrency-update") # {}

\* The control law as the specification words it, on the averages a
\* sample computes and the value current before it.
StatedLaw(a, current) ==
    IF MemoryPressure(a) THEN current - a.adjustmentStep
    ELSE IF CpuHot(a) THEN current - a.adjustmentStep
    ELSE IF CpuCool(a) /\ MemoryFree(a) THEN current + a.adjustmentStep
    ELSE current

Distance(m, n) == IF m > n THEN m - n ELSE n - m

\* C32: the proposal of a sample before clamping is current - step,
\* current + step or current as the stated law gives it, and the
\* recommended concurrency changes by at most step in one sample.
C32_OneStepPerInterval ==
    [][SampleStep =>
          /\ ac'.proposal = StatedLaw(ac', ac.currentConcurrency)
          /\ Distance(ac'.currentConcurrency, ac.currentConcurrency)
                 <= ac.adjustmentStep]_vars

\* C33: a sample emits concurrency-update(new) and metrics exactly when
\* the clamped proposal differs from the current value, which it then
\* replaces; otherwise it emits nothing and leaves the value.
C33_EmitsOnChangeOnly ==
    [][SampleStep =>
          LET new == clamp(ac, ac'.proposal) IN
          IF new # ac.currentConcurrency
          THEN /\ ac'.currentConcurrency = new
               /\ ac'.emitted = <<AcEv("concurrency-update", new, 0),
                                  AcEv("metrics", new, ac.currentConcurrency)>>
          ELSE /\ ac'.currentConcurrency = ac.currentConcurrency
               /\ ac'.emitted = <<>>]_vars

\* A sample pushed against the lower bound the value was already at:
\* nothing was emitted.
C33_Witness ==
    /\ ac.op = "sample"
    /\ ac.proposal < ac.minConcurrency
    /\ ac.proposal > 0 - MaxAcConc
    /\ MemoryPressure(ac)
    /\ ~CpuHot(ac)
    /\ ac.currentConcurrency = ac.minConcurrency
    /\ ac.emitted = <<>>

\* C39: between the return of stop() and the next start() a sample emits
\* nothing and leaves the recommended concurrency; at most one interval
\* timer is active.
C39_StopHaltsSampling ==
    /\ [](ac.timers <= 1)
    /\ [][(SampleStep /\ ac.halted) =>
             /\ ac'.emitted = <<>>
             /\ ac'.currentConcurrency = ac.currentConcurrency]_vars

====
